---------------------------- MODULE Spec2Model ----------------------------
(***************************************************************************)
(* A model of get_ENA_accession_from_pdf.py: the accession matcher         *)
(* (find_accessions over the PATTERNS registry), the title cascade         *)
(* (guess_title_from_first_page, clean_title) and the batch loop of main().*)
(*                                                                         *)
(* A Python str is a sequence of characters; a character is a one-element  *)
(* string.  The en dash and the em dash are written "ndash" and "mdash".   *)
(***************************************************************************)
EXTENDS Integers, Sequences, FiniteSets

VARIABLES
    \* main(): the arguments, the enumerated batch and the locals of the loop
    args, input_dir, pdf_files, pc, idx, title, text, matches, exc,
    rows, jsonl_records, total_matches, csv_file, jsonl_file, done_dir,
    \* a call of guess_title_from_first_page on one document
    t_doc, t_pc, t_title,
    \* a call of find_accessions on one text
    a_tokens, a_sep, a_pc, a_text, a_dehyphen, a_found

mainVars == <<args, input_dir, pdf_files, pc, idx, title, text, matches, exc,
              rows, jsonl_records, total_matches, csv_file, jsonl_file, done_dir>>
titleVars == <<t_doc, t_pc, t_title>>
accVars == <<a_tokens, a_sep, a_pc, a_text, a_dehyphen, a_found>>
vars == <<mainVars, titleVars, accVars>>

\* the variables of the parts a specification leaves alone
MainIdle ==
    /\ args = [write_jsonl |-> TRUE, move_done |-> FALSE]
    /\ input_dir = {} /\ pdf_files = <<>> /\ pc = "idle" /\ idx = 0
    /\ title = <<>> /\ text = <<>> /\ matches = <<>> /\ exc = <<>>
    /\ rows = <<>> /\ jsonl_records = <<>> /\ total_matches = 0
    /\ csv_file = <<>> /\ jsonl_file = <<>> /\ done_dir = {}
TitleIdle == t_doc = <<>> /\ t_pc = "idle" /\ t_title = <<>>
AccIdle ==
    /\ a_tokens = <<>> /\ a_sep = " " /\ a_pc = "idle"
    /\ a_text = <<>> /\ a_dehyphen = <<>> /\ a_found = <<>>

----------------------------------------------------------------------------
(* Characters and str methods                                              *)

\* F(v) with v evaluated once, as a local assignment x = v followed by F(x)
Bind(v, F(_)) == CHOOSE r \in {F(x) : x \in {v}} : TRUE

UpperLetters == <<"A","B","C","D","E","F","G","H","I","J","K","L","M",
                  "N","O","P","Q","R","S","T","U","V","W","X","Y","Z">>
LowerLetters == <<"a","b","c","d","e","f","g","h","i","j","k","l","m",
                  "n","o","p","q","r","s","t","u","v","w","x","y","z">>
Digits == {"0","1","2","3","4","5","6","7","8","9"}
UpperSet == {UpperLetters[i] : i \in DOMAIN UpperLetters}
LowerSet == {LowerLetters[i] : i \in DOMAIN LowerLetters}
Whitespace == {" ", "\n", "\t"}
NL == "\n"

UpperMap == [c \in LowerSet |->
               UpperLetters[CHOOSE i \in DOMAIN LowerLetters : LowerLetters[i] = c]]

\* str.upper() on one character and on a string
upper_char(c) == IF c \in LowerSet THEN UpperMap[c] ELSE c
str_upper(s) == [i \in 1..Len(s) |-> upper_char(s[i])]

\* str.isupper(): no lower-case character and at least one cased character
str_isupper(s) ==
    /\ \A i \in 1..Len(s) : s[i] \notin LowerSet
    /\ \E i \in 1..Len(s) : s[i] \in UpperSet

\* str.strip(): leading and trailing whitespace removed
RECURSIVE lstrip(_)
lstrip(s) ==
    IF s # <<>> /\ Head(s) \in Whitespace THEN Bind(Tail(s), LAMBDA r : lstrip(r)) ELSE s
RECURSIVE rstrip_set(_, _)
rstrip_set(s, cs) ==
    IF s # <<>> /\ s[Len(s)] \in cs
    THEN Bind(SubSeq(s, 1, Len(s) - 1), LAMBDA r : rstrip_set(r, cs)) ELSE s
str_strip(s) == Bind(lstrip(s), LAMBDA l : rstrip_set(l, Whitespace))

\* the regular expression classes \w and \d, and [A-Z] under re.IGNORECASE
WordChars == UpperSet \cup LowerSet \cup Digits \cup {"_"}
IsWord(c) == c \in WordChars
IsDigit(c) == c \in Digits
IsLetterIC(c) == upper_char(c) \in UpperSet

----------------------------------------------------------------------------
(* Title inference                                                         *)

DashColon == {"-", "ndash", "mdash", ":"}

\* re.sub(r"\s+", " ", t): every run of whitespace becomes one space
RECURSIVE collapse_ws(_)
collapse_ws(s) ==
    IF s = <<>> THEN <<>>
    ELSE IF Head(s) \in Whitespace
    THEN <<" ">> \o Bind(lstrip(s), LAMBDA r : collapse_ws(r))
    ELSE <<Head(s)>> \o Bind(Tail(s), LAMBDA r : collapse_ws(r))

\* clean_title: collapse whitespace and strip, then drop a trailing run of
\* whitespace, dashes and colons
TrailingChars == Whitespace \cup DashColon
clean_title(t) ==
    Bind(collapse_ws(t),
         LAMBDA t1 : Bind(str_strip(t1), LAMBDA t2 : rstrip_set(t2, TrailingChars)))

\* str.splitlines(): the lines of s, without their line breaks
RECURSIVE splitlines_from(_, _, _)
splitlines_from(s, i, cur) ==
    IF i > Len(s) THEN (IF cur = <<>> THEN <<>> ELSE <<cur>>)
    ELSE IF s[i] = NL THEN <<cur>> \o splitlines_from(s, i + 1, <<>>)
    ELSE splitlines_from(s, i + 1, Append(cur, s[i]))
splitlines(s) == Bind(s, LAMBDA raw : splitlines_from(raw, 1, <<>>))

MetaMinLen == 3
SpanMinLen == 5
LineMinLen == 5
NoBestSize == -1

\* A document as PyMuPDF presents it: metadata.title is the title of the
\* metadata (<<>> when the metadata, the key or its value is missing), pages
\* the text of each page, blocks the layout of page 0 as blocks of lines of
\* spans [text, size], stem the file name without its suffix.
Document(meta_title, pages, blocks, stem) ==
    [meta_title |-> meta_title, pages |-> pages, blocks |-> blocks, stem |-> stem]
page_count(doc) == Len(doc.pages)

\* if meta_title and meta_title.strip() and len(meta_title.strip()) > 3
MetaUsable(meta_title) ==
    /\ meta_title # <<>>
    /\ Bind(str_strip(meta_title), LAMBDA m : m # <<>> /\ Len(m) > MetaMinLen)

\* if txt and len(txt) > 5 and not txt.isupper(), for txt the stripped text
Qualifies(txt) == txt # <<>> /\ Len(txt) > SpanMinLen /\ ~str_isupper(txt)

\* if size > best["size"]
LargerOrEqualSize(size, best_size) == size >= best_size
LargerSize(size, best_size) == size > best_size

\* the three nested loops over blocks, lines and spans, threading best
ScanSpan(span, best) ==
    Bind(str_strip(span.text),
         LAMBDA txt : IF Qualifies(txt) /\ LargerSize(span.size, best.size)
                      THEN [size |-> span.size, text |-> txt] ELSE best)
RECURSIVE ScanLine(_, _)
ScanLine(spans, best) ==
    IF spans = <<>> THEN best
    ELSE Bind(ScanSpan(Head(spans), best), LAMBDA b : ScanLine(Tail(spans), b))
RECURSIVE ScanBlock(_, _)
ScanBlock(lines, best) ==
    IF lines = <<>> THEN best
    ELSE Bind(ScanLine(Head(lines), best), LAMBDA b : ScanBlock(Tail(lines), b))
RECURSIVE ScanBlocks(_, _)
ScanBlocks(blocks, best) ==
    IF blocks = <<>> THEN best
    ELSE Bind(ScanBlock(Head(blocks), best), LAMBDA b : ScanBlocks(Tail(blocks), b))
BestSpan(doc) == ScanBlocks(doc.blocks, [size |-> NoBestSize, text |-> <<>>])

\* the first line L of page 0 with L and len(L) > 5, stripped; <<>> when none:
\* such a line is never empty
RECURSIVE FirstLongLine(_)
FirstLongLine(lines) ==
    IF lines = <<>> THEN <<>>
    ELSE Bind(str_strip(Head(lines)),
              LAMBDA L : IF L # <<>> /\ Len(L) > LineMinLen THEN L
                         ELSE FirstLongLine(Tail(lines)))

\* FirstLine(doc): the line the loop over raw.splitlines() returns at
FirstLine(doc) == Bind(splitlines(doc.pages[1]), LAMBDA lines : FirstLongLine(lines))

guess_title_from_first_page(doc) ==
    IF MetaUsable(doc.meta_title) THEN clean_title(doc.meta_title)
    ELSE Bind(IF page_count(doc) > 0 THEN BestSpan(doc).text ELSE <<>>,
              LAMBDA best_text :
                  IF best_text # <<>> THEN clean_title(best_text)
                  ELSE Bind(IF page_count(doc) > 0 THEN FirstLine(doc) ELSE <<>>,
                            LAMBDA L : IF L # <<>> THEN clean_title(L) ELSE doc.stem))

----------------------------------------------------------------------------
(* The accession pattern registry                                          *)

MinDigits == 4

\* (label, regex): lit is the literal prefix, cls the bracket class after it
\* ({} when the regex has none), optAZ whether [A-Z]? follows, and
\* \d{MinDigits,} ends every pattern; the whole pattern is capture group 1
PATTERNS == <<
    [label |-> "ENA Project", lit |-> <<"P","R","J">>, cls |-> {"E","D","N"}, optAZ |-> TRUE],
    [label |-> "GEO Series",  lit |-> <<"G","S","E">>, cls |-> {},            optAZ |-> FALSE],
    [label |-> "GEO Sample",  lit |-> <<"G","S","M">>, cls |-> {},            optAZ |-> FALSE],
    [label |-> "Biosample",   lit |-> <<"S","A","M">>, cls |-> {"E","N","D"}, optAZ |-> TRUE] >>

\* the number of \d characters of s from position j on (greedy \d*)
RECURSIVE DigitRun(_, _)
DigitRun(s, j) == IF j <= Len(s) /\ IsDigit(s[j]) THEN 1 + DigitRun(s, j + 1) ELSE 0

\* \d{4,} at position j: the position after the match, 0 when it fails
MatchDigits(s, j) == LET n == DigitRun(s, j) IN IF n >= MinDigits THEN j + n ELSE 0

\* rx.match at position i (re.IGNORECASE): the position after the match, 0
\* when there is none.  [A-Z]? is greedy: the letter is taken first and given
\* back when the digits do not follow.
MatchAt(rule, s, i) ==
    LET n == Len(rule.lit)
        litOK == /\ i + n - 1 <= Len(s)
                 /\ \A k \in 1..n : upper_char(s[i + k - 1]) = rule.lit[k]
        j1 == i + n
        clsOK == rule.cls = {} \/ (j1 <= Len(s) /\ upper_char(s[j1]) \in rule.cls)
        j2 == IF rule.cls = {} THEN j1 ELSE j1 + 1
    IN  IF ~(litOK /\ clsOK) THEN 0
        ELSE IF rule.optAZ /\ j2 <= Len(s) /\ IsLetterIC(s[j2])
                           /\ MatchDigits(s, j2 + 1) # 0
             THEN MatchDigits(s, j2 + 1)
             ELSE MatchDigits(s, j2)

\* rx.finditer(target): group 1 of the non-overlapping matches, left to right
RECURSIVE finditer_from(_, _, _)
finditer_from(rule, s, i) ==
    IF i > Len(s) THEN <<>>
    ELSE Bind(MatchAt(rule, s, i),
              LAMBDA e : IF e = 0 THEN finditer_from(rule, s, i + 1)
                         ELSE <<SubSeq(s, i, e - 1)>> \o finditer_from(rule, s, e))
finditer(rule, s) ==
    Bind(rule, LAMBDA rx : Bind(s, LAMBDA target : finditer_from(rx, target, 1)))

----------------------------------------------------------------------------
(* find_accessions                                                         *)

\* re.sub(r"(\w)-\n(\w)", r"\1\2", text): one left-to-right pass over
\* non-overlapping matches; the second word character is consumed by its match
RECURSIVE dehyphen_from(_, _)
dehyphen_from(s, i) ==
    IF i > Len(s) THEN <<>>
    ELSE IF /\ i + 3 <= Len(s)
            /\ IsWord(s[i]) /\ s[i + 1] = "-" /\ s[i + 2] = NL /\ IsWord(s[i + 3])
         THEN <<s[i], s[i + 3]>> \o dehyphen_from(s, i + 4)
         ELSE <<s[i]>> \o dehyphen_from(s, i + 1)
RawOnlyTargets(s) == <<s>>
dehyphenate(s) == dehyphen_from(s, 1)
\* targets = [text, text_dehyphen]
Targets(s) == <<s, dehyphenate(s)>>

\* key = (acc_type, acc) with acc = m.group(1).upper()
KeyAsMatched(acc_type, m) == <<acc_type, m>>
Key(acc_type, m) == <<acc_type, str_upper(m)>>

\* the order in which the two for loops visit (rule, target)
\* as pairs <<index of the rule, index of the target>>, for nt targets
TargetsOuterOrder(nt) ==
    [k \in 1..(Len(PATTERNS) * nt) |->
        <<((k - 1) % Len(PATTERNS)) + 1, ((k - 1) \div Len(PATTERNS)) + 1>>]
ScanOrder(nt) ==
    [k \in 1..(Len(PATTERNS) * nt) |-> <<((k - 1) \div nt) + 1, ((k - 1) % nt) + 1>>]

\* the body of the innermost loop over the matches of one finditer
RECURSIVE AddMatches(_, _, _)
AddMatches(acc_type, ms, st) ==
    IF ms = <<>> THEN st
    ELSE Bind(Key(acc_type, Head(ms)),
              LAMBDA key :
                  IF key \notin st.seen
                  THEN AddMatches(acc_type, Tail(ms),
                                  [seen |-> st.seen \cup {key},
                                   found |-> Append(st.found,
                                                    <<acc_type, str_upper(Head(ms))>>)])
                  ELSE AddMatches(acc_type, Tail(ms), st))

RECURSIVE ScanFrom(_, _, _)
ScanFrom(targets, k, st) ==
    LET order == ScanOrder(Len(targets))
    IN  IF k > Len(order) THEN st
        ELSE Bind(finditer(PATTERNS[order[k][1]], targets[order[k][2]]),
                  LAMBDA ms : Bind(AddMatches(PATTERNS[order[k][1]].label, ms, st),
                                   LAMBDA st2 : ScanFrom(targets, k + 1, st2)))

find_accessions(s) ==
    Bind(Targets(s),
         LAMBDA targets : ScanFrom(targets, 1, [seen |-> {}, found |-> <<>>]).found)

----------------------------------------------------------------------------
(* Calls of find_accessions on bounded texts                               *)

MaxTokens == 3

GSE1234 == <<"G","S","E","1","2","3","4">>
gse1234 == <<"g","s","e","1","2","3","4">>
GSE12345 == <<"G","S","E","1","2","3","4","5">>
PRJEB12345 == <<"P","R","J","E","B","1","2","3","4","5">>
samn1234 == <<"s","a","m","n","1","2","3","4">>

\* A token is an identifier as it stands in the text: whole, split at pos by a
\* hyphen and a line break, split at pos and at pos + 1, or with a hyphen at
\* pos that no line break follows
Token(id, kind, pos) == [id |-> id, kind |-> kind, pos |-> pos]

RenderToken(t) ==
    LET l == SubSeq(t.id, 1, t.pos)
        r == SubSeq(t.id, t.pos + 1, Len(t.id))
    IN  CASE t.kind = "whole"     -> t.id
          [] t.kind = "split"     -> l \o <<"-", NL>> \o r
          [] t.kind = "split2"    -> l \o <<"-", NL, Head(r), "-", NL>> \o Tail(r)
          [] t.kind = "hyphen"    -> l \o <<"-">> \o r
          [] t.kind = "hyphen_sp" -> l \o <<"-", " ", NL>> \o r

RECURSIVE RenderText(_, _)
RenderText(ts, sep) ==
    IF ts = <<>> THEN <<>>
    ELSE IF Len(ts) = 1 THEN RenderToken(ts[1])
    ELSE RenderToken(Head(ts)) \o <<sep>> \o RenderText(Tail(ts), sep)

WellFormed(t) ==
    t.kind = "whole" \/ (t.pos >= 1 /\ t.pos + (IF t.kind = "split2" THEN 1 ELSE 0) < Len(t.id))

\* every way of breaking GSE1234, every line-wrap split of PRJEB12345
BrokenTokens ==
    {t \in {Token(GSE1234, k, p) : k \in {"split", "split2", "hyphen", "hyphen_sp"},
                                   p \in 1..Len(GSE1234)} : WellFormed(t)}
    \cup {Token(PRJEB12345, "split", p) : p \in 1..(Len(PRJEB12345) - 1)}
PlainTokens ==
    {Token(GSE1234, "whole", 0), Token(gse1234, "whole", 0),
     Token(GSE12345, "split", 7), Token(samn1234, "split", 4)}

AccInit ==
    /\ MainIdle /\ TitleIdle
    /\ a_tokens = <<>> /\ a_sep \in {" ", NL} /\ a_pc = "build"
    /\ a_text = <<>> /\ a_dehyphen = <<>> /\ a_found = <<>>

\* the caller composes the text of the document
AddToken(t) ==
    /\ a_pc = "build" /\ Len(a_tokens) < MaxTokens
    /\ t \in BrokenTokens => \A k \in 1..Len(a_tokens) : a_tokens[k] \notin BrokenTokens
    /\ a_tokens' = Append(a_tokens, t)
    /\ UNCHANGED <<a_sep, a_pc, a_text, a_dehyphen, a_found, mainVars, titleVars>>

CallFindAccessions ==
    /\ a_pc = "build"
    /\ a_text' = RenderText(a_tokens, a_sep)
    /\ a_dehyphen' = dehyphenate(a_text')
    /\ a_found' = find_accessions(a_text')
    /\ a_pc' = "returned"
    /\ UNCHANGED <<a_tokens, a_sep, mainVars, titleVars>>

AccNext ==
    \/ \E t \in PlainTokens \cup BrokenTokens : AddToken(t)
    \/ CallFindAccessions

AccSpec == AccInit /\ [][AccNext]_vars

----------------------------------------------------------------------------
(* main(): the batch loop                                                  *)

\* "\n".join(page.get_text() for page in doc)
RECURSIVE join_pages(_)
join_pages(pages) ==
    IF pages = <<>> THEN <<>>
    ELSE IF Len(pages) = 1 THEN pages[1]
    ELSE Head(pages) \o <<NL>> \o join_pages(Tail(pages))
extract_pdf_text(doc) == join_pages(doc.pages)

\* f"ERROR: {e.__class__.__name__}" and str(e), for e = [cls, msg]
ErrorPrefix == <<"E","R","R","O","R",":"," ">>
ErrorTitle(e) == ErrorPrefix \o e.cls

Row(name, t, acc_type, acc) ==
    [pdf_file |-> name, paper_title |-> t, accession_type |-> acc_type, accession |-> acc]

\* the rows and the JSONL record of a processed document
SuccessRows(name, t, ms) ==
    IF ms # <<>> THEN [i \in 1..Len(ms) |-> Row(name, t, ms[i][1], ms[i][2])]
    ELSE <<Row(name, t, "", <<>>)>>
SuccessRecord(name, t, ms) ==
    [pdf_file |-> name, paper_title |-> t,
     accessions |-> [i \in 1..Len(ms) |-> [type |-> ms[i][1], id |-> ms[i][2]]]]
\* the row and the JSONL record of the except clause
ErrorRow(name, e) == Row(name, ErrorTitle(e), "", <<>>)
ErrorRecord(name, e) ==
    [pdf_file |-> name, paper_title |-> ErrorTitle(e), accessions |-> <<>>, error |-> e.msg]

\* sorted(...): the files of the directory by name
RECURSIVE SortedByName(_)
SortedByName(files) ==
    IF files = {} THEN <<>>
    ELSE Bind(CHOOSE x \in files : \A y \in files : x.name <= y.name,
              LAMBDA f : <<f>> \o SortedByName(files \ {f}))

\* lines 164-173: enumerate the directory; return at once when it holds no PDF
Enumerate ==
    /\ pc = "start"
    /\ pdf_files' = SortedByName(input_dir)
    /\ pc' = IF pdf_files' = <<>> THEN "returned" ELSE "for"
    /\ UNCHANGED <<args, input_dir, idx, title, text, matches, exc, rows, jsonl_records,
                   total_matches, csv_file, jsonl_file, done_dir, titleVars, accVars>>

\* a loop that leaves out the last document of the batch
ForNextSkipsLast ==
    /\ pc = "for"
    /\ IF idx + 1 < Len(pdf_files)
       THEN idx' = idx + 1 /\ pc' = "guess_title"
       ELSE idx' = idx /\ pc' = "write_csv"
    /\ UNCHANGED <<args, input_dir, pdf_files, title, text, matches, exc, rows, jsonl_records,
                   total_matches, csv_file, jsonl_file, done_dir, titleVars, accVars>>

\* line 175: the next document, or the end of the loop
ForNext ==
    /\ pc = "for"
    /\ IF idx < Len(pdf_files)
       THEN idx' = idx + 1 /\ pc' = "guess_title"
       ELSE idx' = idx /\ pc' = "write_csv"
    /\ UNCHANGED <<args, input_dir, pdf_files, title, text, matches, exc, rows, jsonl_records,
                   total_matches, csv_file, jsonl_file, done_dir, titleVars, accVars>>

\* line 178: title = guess_title_from_first_page(pdf), or fitz raises
GuessTitle ==
    /\ pc = "guess_title"
    /\ LET pdf == pdf_files[idx]
       IN  IF pdf.fault = "title"
           THEN exc' = pdf.exc /\ pc' = "except" /\ UNCHANGED title
           ELSE title' = guess_title_from_first_page(pdf.doc) /\ pc' = "extract_text"
                /\ UNCHANGED exc
    /\ UNCHANGED <<args, input_dir, pdf_files, idx, text, matches, rows, jsonl_records,
                   total_matches, csv_file, jsonl_file, done_dir, titleVars, accVars>>

\* line 179: text = extract_pdf_text(pdf), or fitz raises
ExtractText ==
    /\ pc = "extract_text"
    /\ LET pdf == pdf_files[idx]
       IN  IF pdf.fault = "extract"
           THEN exc' = pdf.exc /\ pc' = "except" /\ UNCHANGED text
           ELSE text' = extract_pdf_text(pdf.doc) /\ pc' = "find_accessions"
                /\ UNCHANGED exc
    /\ UNCHANGED <<args, input_dir, pdf_files, idx, title, matches, rows, jsonl_records,
                   total_matches, csv_file, jsonl_file, done_dir, titleVars, accVars>>

\* line 180: matches = find_accessions(text), or it raises
FindAccessions ==
    /\ pc = "find_accessions"
    /\ LET pdf == pdf_files[idx]
       IN  IF pdf.fault = "match"
           THEN exc' = pdf.exc /\ pc' = "except" /\ UNCHANGED matches
           ELSE matches' = find_accessions(text) /\ pc' = "append"
                /\ UNCHANGED exc
    /\ UNCHANGED <<args, input_dir, pdf_files, idx, title, text, rows, jsonl_records,
                   total_matches, csv_file, jsonl_file, done_dir, titleVars, accVars>>

\* lines 182-213: the rows and the record of the document
AppendRecord ==
    /\ pc = "append"
    /\ LET name == pdf_files[idx].name
       IN  /\ rows' = rows \o SuccessRows(name, title, matches)
           /\ jsonl_records' = IF args.write_jsonl
                                THEN Append(jsonl_records, SuccessRecord(name, title, matches))
                                ELSE jsonl_records
    /\ total_matches' = total_matches + Len(matches)
    /\ pc' = IF args.move_done THEN "move" ELSE "for"
    /\ UNCHANGED <<args, input_dir, pdf_files, idx, title, text, matches, exc,
                   csv_file, jsonl_file, done_dir, titleVars, accVars>>

\* lines 215-219: shutil.move(pdf, done/), inside the try block, or it raises
MoveDone ==
    /\ pc = "move"
    /\ LET pdf == pdf_files[idx]
       IN  IF pdf.fault = "move"
           THEN exc' = pdf.exc /\ pc' = "except" /\ UNCHANGED <<input_dir, done_dir>>
           ELSE /\ input_dir' = input_dir \ {pdf}
                /\ done_dir' = done_dir \cup {pdf.name}
                /\ pc' = "for"
                /\ UNCHANGED exc
    /\ UNCHANGED <<args, pdf_files, idx, title, text, matches, rows, jsonl_records,
                   total_matches, csv_file, jsonl_file, titleVars, accVars>>

\* an except clause that records the failure and leaves the loop
ExceptAborts ==
    /\ pc = "except"
    /\ LET name == pdf_files[idx].name
       IN  /\ rows' = Append(rows, ErrorRow(name, exc))
           /\ jsonl_records' = IF args.write_jsonl
                                THEN Append(jsonl_records, ErrorRecord(name, exc))
                                ELSE jsonl_records
    /\ pc' = "write_csv"
    /\ UNCHANGED <<args, input_dir, pdf_files, idx, title, text, matches, exc,
                   total_matches, csv_file, jsonl_file, done_dir, titleVars, accVars>>

\* lines 221-235: except Exception as e
Except ==
    /\ pc = "except"
    /\ LET name == pdf_files[idx].name
       IN  /\ rows' = Append(rows, ErrorRow(name, exc))
           /\ jsonl_records' = IF args.write_jsonl
                                THEN Append(jsonl_records, ErrorRecord(name, exc))
                                ELSE jsonl_records
    /\ pc' = "for"
    /\ UNCHANGED <<args, input_dir, pdf_files, idx, title, text, matches, exc,
                   total_matches, csv_file, jsonl_file, done_dir, titleVars, accVars>>

\* lines 238-240: df.to_csv(output_csv)
WriteCsv ==
    /\ pc = "write_csv"
    /\ csv_file' = Append(csv_file, rows)
    /\ pc' = IF args.write_jsonl THEN "write_jsonl" ELSE "returned"
    /\ UNCHANGED <<args, input_dir, pdf_files, idx, title, text, matches, exc, rows,
                   jsonl_records, total_matches, jsonl_file, done_dir, titleVars, accVars>>

\* lines 242-246: the JSONL file
WriteJsonl ==
    /\ pc = "write_jsonl"
    /\ jsonl_file' = Append(jsonl_file, jsonl_records)
    /\ pc' = "returned"
    /\ UNCHANGED <<args, input_dir, pdf_files, idx, title, text, matches, exc, rows,
                   jsonl_records, total_matches, csv_file, done_dir, titleVars, accVars>>

Next ==
    \/ Enumerate \/ ForNext \/ GuessTitle \/ ExtractText \/ FindAccessions
    \/ AppendRecord \/ MoveDone \/ Except \/ WriteCsv \/ WriteJsonl

----------------------------------------------------------------------------
(* Calls of guess_title_from_first_page on bounded documents               *)

MaxSpans == 3

Span(txt, size) == [text |-> txt, size |-> size]
AStudy == <<"A"," ","S","t","u","d","y">>
RESULTS == <<"R","E","S","U","L","T","S">>
MethodsColon == <<"M","e","t","h","o","d","s",":">>
Methods == <<"M","e","t","h","o","d","s">>
Dashes == <<"-","-","-","-","-","-">>
Notes1 == <<" ","N","o","t","e","s"," ","1"," ">>
Intro == <<"I","n","t","r","o">>
SpanPool == {Span(AStudy, 12), Span(RESULTS, 24), Span(MethodsColon, 12),
             Span(Dashes, 24), Span(Notes1, 10), Span(Intro, 30)}

MyTitle == <<"M","y"," "," ","T","i","t","l","e"," ","mdash">>
MetaPool == {<<>>, <<" ","a","b","c"," ">>, MyTitle, <<"-","-","-","-">>}

Page1 == <<"p",".","1",NL," ","F","i","r","s","t"," ","l","i","n","e",":"," ",NL,"m","o","r","e">>
Page2 == <<NL,":",":",":",":",":",":",NL,"t","e","x","t"," ","2">>
FirstPagePool == {<<>>, Page1, Page2}
Stem == <<"p","a","p","e","r","1">>

TitleInit ==
    /\ MainIdle /\ AccIdle
    /\ t_pc = "build" /\ t_title = <<>>
    /\ \E m \in MetaPool :
          \/ t_doc = Document(m, <<>>, <<>>, Stem)
          \/ \E p \in FirstPagePool : t_doc = Document(m, <<p>>, <<>>, Stem)

SpanCount(blocks) ==
    LET lineCount(b) == IF b = <<>> THEN 0 ELSE
            LET F[i \in 0..Len(b)] == IF i = 0 THEN 0 ELSE F[i - 1] + Len(b[i]) IN F[Len(b)]
        G[i \in 0..Len(blocks)] == IF i = 0 THEN 0 ELSE G[i - 1] + lineCount(blocks[i])
    IN  G[Len(blocks)]

\* page 0 gets one more span: in a new block, in a new line of the last
\* block, or in the last line
AddSpan(sp, where) ==
    LET bs == t_doc.blocks
        nb == Len(bs)
        nl == Len(bs[nb])
    IN  /\ t_pc = "build" /\ page_count(t_doc) > 0
        /\ SpanCount(bs) < MaxSpans
        /\ where # "new_block" => nb > 0
        /\ t_doc' = [t_doc EXCEPT !.blocks =
              CASE where = "new_block" -> Append(bs, << <<sp>> >>)
                [] where = "new_line"  -> [bs EXCEPT ![nb] = Append(@, <<sp>>)]
                [] where = "same_line" -> [bs EXCEPT ![nb][nl] = Append(@, sp)]]
        /\ UNCHANGED <<t_pc, t_title, mainVars, accVars>>

CallGuessTitle ==
    /\ t_pc = "build"
    /\ t_title' = guess_title_from_first_page(t_doc)
    /\ t_pc' = "returned"
    /\ UNCHANGED <<t_doc, mainVars, accVars>>

TitleNext ==
    \/ \E sp \in SpanPool, where \in {"new_block", "new_line", "same_line"} : AddSpan(sp, where)
    \/ CallGuessTitle

TitleSpec == TitleInit /\ [][TitleNext]_vars

----------------------------------------------------------------------------
(* Properties of guess_title_from_first_page                               *)

TitleReturned == t_pc = "returned"

\* the spans of page 0 in block, line, span order
FlatSpans(blocks) ==
    LET flatBlock(b) ==
            LET F[i \in 0..Len(b)] == IF i = 0 THEN <<>> ELSE F[i - 1] \o b[i] IN F[Len(b)]
        G[i \in 0..Len(blocks)] == IF i = 0 THEN <<>> ELSE G[i - 1] \o flatBlock(blocks[i])
    IN  G[Len(blocks)]

\* C4: guess_title_from_first_page never returns an empty title: a candidate
\* that cleans to the empty string is skipped and a later tier supplies it.
C4_TitleNeverEmpty == TitleReturned => t_title # <<>>

\* C7: with an unusable metadata title and a qualifying span on page 0, the
\* title is the cleaned text of the qualifying span of the largest size, the
\* first of them in document order among equal sizes.
C7_LargestQualifyingSpan ==
    LET fs == FlatSpans(t_doc.blocks)
        q == {i \in 1..Len(fs) : Qualifies(str_strip(fs[i].text))}
    IN  (TitleReturned /\ ~MetaUsable(t_doc.meta_title) /\ q # {}) =>
            \E i \in q :
                /\ \A j \in q : fs[j].size <= fs[i].size
                /\ \A j \in q : j < i => fs[j].size < fs[i].size
                /\ t_title = clean_title(str_strip(fs[i].text))

\* spans of sizes 10, 24 (all upper-case) and 12, then a second span of size
\* 12: the title is the first size-12 text
C7_Witness ==
    /\ TitleReturned
    /\ t_doc.meta_title = <<>>
    /\ FlatSpans(t_doc.blocks) \in
          {<<Span(Notes1, 10), Span(RESULTS, 24), Span(AStudy, 12)>>,
           <<Span(RESULTS, 24), Span(MethodsColon, 12), Span(AStudy, 12)>>}
    /\ Len(t_doc.blocks) > 1
    /\ t_title \in {AStudy, Methods}

----------------------------------------------------------------------------
(* Runs of main() on bounded batches                                       *)

MaxDocs == 3

Exception(cls, msg) == [cls |-> cls, msg |-> msg]
FileDataError == Exception(<<"F","i","l","e","D","a","t","a","E","r","r","o","r">>,
                           <<"b","r","o","k","e","n">>)
\* str(MemoryError()) is the empty string
MemoryError == Exception(<<"M","e","m","o","r","y","E","r","r","o","r">>, <<>>)
PermissionError == Exception(<<"P","e","r","m","i","s","s","i","o","n","E","r","r","o","r">>,
                             <<"d","e","n","i","e","d">>)
NoException == Exception(<<>>, <<>>)

\* file names are p1.pdf, p2.pdf, ...: name is the number, StemOf its stem
DigitChars == <<"1","2","3","4","5","6","7","8","9">>
StemOf(name) == <<"p", DigitChars[name]>>

\* two pages with three matches of two accessions, metadata title
ContentA(name) ==
    Document(MyTitle,
             <<GSE1234 \o <<" ">> \o gse1234, RenderToken(Token(PRJEB12345, "split", 7))>>,
             <<>>, StemOf(name))
\* one page without accessions, title from its one span
ContentB(name) == Document(<<>>, <<Page1>>, << << <<Span(AStudy, 12)>> >> >>, StemOf(name))
\* no page and no metadata
ContentC(name) == Document(<<>>, <<>>, <<>>, StemOf(name))

\* A file of the input directory: its content, and where processing it
\* raises (fault) and what (exc)
PdfFile(name, kind) ==
    LET doc == CASE kind[1] = "A" -> ContentA(name)
                 [] kind[1] = "B" -> ContentB(name)
                 [] kind[1] = "C" -> ContentC(name)
    IN  [name |-> name, doc |-> doc, fault |-> kind[2], exc |-> kind[3]]
FileKinds ==
    {<<"A", "none", NoException>>, <<"B", "none", NoException>>,
     <<"A", "move", PermissionError>>,
     <<"C", "title", FileDataError>>, <<"B", "extract", MemoryError>>,
     <<"A", "match", MemoryError>>}

Init ==
    /\ TitleIdle /\ AccIdle
    /\ args \in [write_jsonl : BOOLEAN, move_done : BOOLEAN]
    /\ \E n \in 0..MaxDocs : \E kinds \in [1..n -> FileKinds] :
          input_dir = {PdfFile(i, kinds[i]) : i \in 1..n}
    /\ pdf_files = <<>> /\ pc = "start" /\ idx = 0
    /\ title = <<>> /\ text = <<>> /\ matches = <<>> /\ exc = NoException
    /\ rows = <<>> /\ jsonl_records = <<>> /\ total_matches = 0
    /\ csv_file = <<>> /\ jsonl_file = <<>> /\ done_dir = {}

Spec == Init /\ [][Next]_vars

\* main() is one sequential thread: while a step is enabled, one is taken
FairSpec == Spec /\ WF_vars(Next)

----------------------------------------------------------------------------
(* Properties of main()                                                    *)

Finished == pc = "returned" /\ pdf_files # <<>>
Failing(pdf) == pdf.fault \in {"title", "extract", "match"}
RowsOf(name) == SelectSeq(rows, LAMBDA r : r.pdf_file = name)
RecordsOf(name) == SelectSeq(jsonl_records, LAMBDA r : r.pdf_file = name)
IsErrorTitle(t) == Len(t) >= Len(ErrorPrefix) /\ SubSeq(t, 1, Len(ErrorPrefix)) = ErrorPrefix
HasSuccessRow(name) ==
    \E k \in 1..Len(rows) : rows[k].pdf_file = name /\ ~IsErrorTitle(rows[k].paper_title)
HasErrorRow(name) ==
    \E k \in 1..Len(rows) : rows[k].pdf_file = name /\ IsErrorTitle(rows[k].paper_title)

\* C1: after a batch every enumerated PDF has exactly one record: one entry
\* of jsonl_records and, in the rows, its hit rows or exactly one blank row,
\* also when the relocation to ./done fails after the record was built.
C1_ExactlyOneRecord ==
    Finished =>
        \A i \in 1..Len(pdf_files) :
            LET rs == RowsOf(pdf_files[i].name)
                js == RecordsOf(pdf_files[i].name)
            IN  /\ args.write_jsonl => Len(js) = 1
                /\ \/ Len(rs) >= 1 /\ \A k \in 1..Len(rs) : rs[k].accession_type # ""
                   \/ Len(rs) = 1 /\ rs[1].accession_type = "" /\ rs[1].accession = <<>>

\* what a batch without failing documents leaves in rows and jsonl_records
RECURSIVE ReferenceRows(_)
ReferenceRows(batch) ==
    IF batch = <<>> THEN <<>>
    ELSE LET pdf == Head(batch)
             t == guess_title_from_first_page(pdf.doc)
             ms == find_accessions(extract_pdf_text(pdf.doc))
         IN  SuccessRows(pdf.name, t, ms)
             \o (IF args.move_done /\ pdf.fault = "move"
                 THEN <<ErrorRow(pdf.name, pdf.exc)>> ELSE <<>>)
             \o ReferenceRows(Tail(batch))
RECURSIVE ReferenceRecords(_)
ReferenceRecords(batch) ==
    IF batch = <<>> THEN <<>>
    ELSE LET pdf == Head(batch)
             t == guess_title_from_first_page(pdf.doc)
             ms == find_accessions(extract_pdf_text(pdf.doc))
         IN  <<SuccessRecord(pdf.name, t, ms)>>
             \o (IF args.move_done /\ pdf.fault = "move"
                 THEN <<ErrorRecord(pdf.name, pdf.exc)>> ELSE <<>>)
             \o ReferenceRecords(Tail(batch))
NonFailingNames == {pdf_files[i].name : i \in {k \in 1..Len(pdf_files) : ~Failing(pdf_files[k])}}
Isolated ==
    LET batch == SelectSeq(pdf_files, LAMBDA pdf : ~Failing(pdf))
    IN  /\ SelectSeq(rows, LAMBDA r : r.pdf_file \in NonFailingNames) = ReferenceRows(batch)
        /\ args.write_jsonl =>
              SelectSeq(jsonl_records, LAMBDA r : r.pdf_file \in NonFailingNames)
                  = ReferenceRecords(batch)

\* C2 as claimed: every document whose title inference, extraction or matching
\* raises gets a record with title 'ERROR: <class>', no hits and a non-empty
\* error field, and the records of the other documents are those of the
\* batch without the failing ones.
C2_NonEmptyErrorField ==
    Finished =>
        /\ \A i \in 1..Len(pdf_files) :
              Failing(pdf_files[i]) =>
                LET js == RecordsOf(pdf_files[i].name)
                IN  /\ Len(js) = 1
                    /\ js[1].paper_title = ErrorTitle(pdf_files[i].exc)
                    /\ js[1].accessions = <<>>
                    /\ js[1].error # <<>>
        /\ Isolated

\* C2 as amended: the failing document gets one row with title
\* 'ERROR: <class>' and blank type and id and, when the JSONL output is
\* enabled, one record with that title, no accessions and the error field
\* str(e), which may be empty; the records of the other documents are those
\* of the batch without the failing ones.
C2_FailureIsolation ==
    Finished =>
        /\ \A i \in 1..Len(pdf_files) :
              Failing(pdf_files[i]) =>
                LET pdf == pdf_files[i]
                IN  /\ RowsOf(pdf.name) = <<Row(pdf.name, ErrorTitle(pdf.exc), "", <<>>)>>
                    /\ args.write_jsonl =>
                          RecordsOf(pdf.name) =
                              <<[pdf_file |-> pdf.name, paper_title |-> ErrorTitle(pdf.exc),
                                 accessions |-> <<>>, error |-> pdf.exc.msg]>>
                    /\ ~args.write_jsonl => RecordsOf(pdf.name) = <<>>
        /\ Isolated

\* three documents, the second fails in extraction: three records, the first
\* and the third with their titles and hits
C2_Witness ==
    /\ Finished /\ args.write_jsonl
    /\ Len(pdf_files) = 3
    /\ pdf_files[1].fault = "none" /\ pdf_files[3].fault = "none"
    /\ pdf_files[2].fault = "extract"
    /\ Len(jsonl_records) = 3
    /\ jsonl_records[1].accessions = <<[type |-> "ENA Project", id |-> PRJEB12345],
                                       [type |-> "GEO Series", id |-> GSE1234]>>
    /\ "error" \in DOMAIN jsonl_records[2]
    /\ jsonl_records[3].paper_title = AStudy

\* C3 as claimed: whatever the batch, the empty one included, the run ends
\* with each enabled sink written exactly once.
C3_AlwaysWritesSinks ==
    pc = "returned" =>
        /\ Len(csv_file) = 1
        /\ args.write_jsonl => Len(jsonl_file) = 1

AllRecorded == \A i \in 1..Len(pdf_files) : RowsOf(pdf_files[i].name) # <<>>
\* C3 as amended: every run ends; a run over at least one PDF has then
\* written the CSV once and, when enabled, the JSONL once, each holding the
\* records of the whole batch and written only after the last document; a
\* run over no PDF ends without writing either.
C3_CompletesAndWritesOnce ==
    /\ <>[](pc = "returned")
    /\ [](pc = "returned" =>
            IF pdf_files = <<>> THEN csv_file = <<>> /\ jsonl_file = <<>>
            ELSE /\ csv_file = <<rows>>
                 /\ jsonl_file = IF args.write_jsonl THEN <<jsonl_records>> ELSE <<>>)
    /\ [](csv_file # <<>> \/ jsonl_file # <<>> =>
            idx = Len(pdf_files) /\ AllRecorded /\ pc \in {"write_jsonl", "returned"})

\* a batch whose every document failed has been written to both sinks
C3_Witness ==
    /\ Finished /\ args.write_jsonl
    /\ Len(pdf_files) = 2
    /\ \A i \in 1..Len(pdf_files) : Failing(pdf_files[i])
    /\ Len(csv_file) = 1 /\ Len(csv_file[1]) = 2
    /\ Len(jsonl_file) = 1 /\ Len(jsonl_file[1]) = 2

\* the state of document i: pending, extracting, matching, succeeded, failed
Status(i) ==
    LET name == pdf_files[i].name
    IN  IF i > idx THEN "pending"
        ELSE IF HasErrorRow(name) \/ (i = idx /\ pc = "except") THEN "failed"
        ELSE IF HasSuccessRow(name) THEN "succeeded"
        ELSE IF pc \in {"guess_title", "extract_text"} THEN "extracting"
        ELSE "matching"

\* C10: succeeded and failed are terminal: a document whose success record
\* has been appended never enters the failure path, also when the relocation
\* to ./done raises, and a failed document is not processed again.
C10_TerminalStates ==
    [][\A i \in 1..Len(pdf_files) :
          Status(i) \in {"succeeded", "failed"} => Status(i)' = Status(i)]_vars

----------------------------------------------------------------------------
(* Properties of find_accessions                                           *)

Returned == a_pc = "returned"
Hits == {a_found[i] : i \in 1..Len(a_found)}

\* group 1 of every match of rule r on surface s, upper-cased, in match order
UpperMatches(r, s) ==
    LET ms == finditer(PATTERNS[r], s) IN [i \in 1..Len(ms) |-> str_upper(ms[i])]
SeqRange(q) == {q[i] : i \in 1..Len(q)}
FirstIndex(q, x) == CHOOSE i \in 1..Len(q) : q[i] = x /\ \A j \in 1..(i - 1) : q[j] # x
RuleOf(label) == CHOOSE r \in 1..Len(PATTERNS) : PATTERNS[r].label = label
\* the rules an identifier matches as a whole
RulesMatching(id) == {r \in 1..Len(PATTERNS) : finditer(PATTERNS[r], id) = <<id>>}

\* C5: the list returned by find_accessions holds no two entries with the same
\* (label, upper-cased identifier), whatever the text: a pair matched on both
\* surfaces, several times or in different letter case appears once.
C5_NoDuplicateHits ==
    Returned =>
        \A i, j \in 1..Len(a_found) :
            i < j => <<a_found[i][1], str_upper(a_found[i][2])>>
                     # <<a_found[j][1], str_upper(a_found[j][2])>>

\* the text "GSE1234 gse1234 GSE1234" (and the same with a split third
\* occurrence) has been searched and gave the one hit
C5_Witness ==
    /\ Returned
    /\ Len(a_tokens) = 3
    /\ a_tokens[1] = Token(GSE1234, "whole", 0)
    /\ a_tokens[2] = Token(gse1234, "whole", 0)
    /\ a_tokens[3] \in {Token(GSE1234, "whole", 0), Token(GSE1234, "split", 5)}
    /\ a_found = << <<"GEO Series", GSE1234>> >>

CollapseAll(s) ==
    LET drop == {i \in 1..Len(s) :
                    \/ /\ s[i] = "-" /\ i > 1 /\ i + 2 <= Len(s)
                       /\ IsWord(s[i - 1]) /\ s[i + 1] = NL /\ IsWord(s[i + 2])
                    \/ /\ s[i] = NL /\ i > 2 /\ i + 1 <= Len(s)
                       /\ IsWord(s[i - 2]) /\ s[i - 1] = "-" /\ IsWord(s[i + 1])}
        F[i \in 0..Len(s)] ==
            IF i = 0 THEN <<>> ELSE IF i \in drop THEN F[i - 1] ELSE Append(F[i - 1], s[i])
    IN  F[Len(s)]
HasSplit(s) ==
    \E i \in 1..(Len(s) - 3) :
        IsWord(s[i]) /\ s[i + 1] = "-" /\ s[i + 2] = NL /\ IsWord(s[i + 3])

\* C8: the dehyphenated surface is the raw text with every occurrence of
\* <word-char>-<line-break><word-char> collapsed, consecutive occurrences that
\* share a word character included, so that none remains; every other
\* character is unchanged.
C8_DehyphenCollapsesAll ==
    Returned => a_dehyphen = CollapseAll(a_text) /\ ~HasSplit(a_dehyphen)

=============================================================================
